---- MODULE Spec2Model ----
(***************************************************************************)
(* A model of cli/tsc_config.rs: the serde_json `Value` tree, json_merge,  *)
(* the jsonc -> serde conversion, the compiler-option filter of            *)
(* parse_config, and the TsConfig resolver (merge_user_config,             *)
(* as_transpile_config).                                                   *)
(***************************************************************************)
EXTENDS Integers, Sequences, FiniteSets, TLC

VARIABLES
  a0,      \* json_merge: the value of `a` before the first call
  a,       \* json_merge: the `&mut Value` being merged into
  b,       \* json_merge: the `&Value` merged from
  mpc,     \* which driver runs, and for json_merge how often it has run
  base,    \* TsConfig::new(value): the value the resolver was built with
  config,  \* TsConfig.0: the resolver's held configuration
  before,  \* TsConfig.0 as it was when the last call started
  ret,     \* what the last call on the resolver returned to its caller
  hist,    \* the filtered option values of the successful merges, in order
  prev,    \* what the call before the last one returned
  calls,   \* how many calls have been made on the resolver
  text     \* parse_raw_config / parse_config driver: the config_text argument

vars == <<a0, a, b, mpc, base, config, before, ret, hist, prev, calls, text>>

(***************************************************************************)
(* serde_json::Value: Null | Bool | Number | String | Array | Object.      *)
(* An Object's map is a function from its keys to Values.                  *)
(***************************************************************************)
Null == [t |-> "Null"]
Bool(x) == [t |-> "Bool", b |-> x]
Number(n) == [t |-> "Number", n |-> n]
String(s) == [t |-> "String", s |-> s]
Array(e) == [t |-> "Array", e |-> e]
Object(m) == [t |-> "Object", m |-> m]

EmptyMap == [k \in {} |-> Null]

is_object(v) == v.t = "Object"

\* Map::insert / Map::entry(k).or_insert: the map with k bound to v.
MapInsert(m, k, v) == [x \in DOMAIN m \cup {k} |-> IF x = k THEN v ELSE m[x]]

\* All maps from a subset of `keys` to members of `vals`.
Maps(keys, vals) == UNION {[ks -> vals] : ks \in SUBSET keys}

(***************************************************************************)
(* Bounds of the value universe json_merge is exercised on.                *)
(***************************************************************************)
MaxArrayLen == 2

ArrayElems == {Number("1"), Number("3")}

Arrays == {Array(e) : e \in UNION {[1..n -> ArrayElems] : n \in 0..MaxArrayLen}}

Scalars == {Null, Bool(TRUE), Number("1"), String("d")}

InnerObjects == {Object(m) : m \in Maps({"x", "y"}, {Number("1"), Number("2")})}

InnerValues == Scalars \cup Arrays \cup InnerObjects

OuterObjects == {Object(m) : m \in Maps({"a", "b"}, InnerValues)}

MergeValues == InnerValues \cup OuterObjects

(***************************************************************************)
(* json_merge(a, b): the value `a` holds after the call.                   *)
(***************************************************************************)
RECURSIVE json_merge(_, _)
RECURSIVE MergeEntries(_, _, _)

\* The loop `for (k, v) in b { json_merge(a.entry(k).or_insert(Null), v) }`
\* over the keys `ks` of b not yet visited.
MergeEntries(am, bm, ks) ==
  IF ks = {} THEN am
  ELSE LET k == CHOOSE x \in ks : TRUE
           entry == IF k \in DOMAIN am THEN am[k] ELSE Null
       IN MergeEntries(MapInsert(am, k, json_merge(entry, bm[k])), bm, ks \ {k})

\* Variant: JavaScript's Object.assign, which copies the entries of b over
\* those of a without descending into them.
json_merge_shallow(x, y) ==
  IF is_object(x) /\ is_object(y)
  THEN Object([k \in DOMAIN x.m \cup DOMAIN y.m |->
                 IF k \in DOMAIN y.m THEN y.m[k] ELSE x.m[k]])
  ELSE y

\* Variant: a Null in b is taken as "not set" and does not overwrite a.
json_merge_skip_null(x, y) ==
  IF is_object(x) /\ is_object(y)
  THEN Object(MergeEntries(x.m, y.m, DOMAIN y.m))
  ELSE IF y = Null THEN x ELSE y

\* Variant: two Arrays are concatenated instead of the second replacing the first.
json_merge_append(x, y) ==
  IF is_object(x) /\ is_object(y)
  THEN Object(MergeEntries(x.m, y.m, DOMAIN y.m))
  ELSE IF x.t = "Array" /\ y.t = "Array" THEN Array(x.e \o y.e) ELSE y

json_merge(x, y) ==
  IF is_object(x) /\ is_object(y)
  THEN Object(MergeEntries(x.m, y.m, DOMAIN y.m))
  ELSE y

(***************************************************************************)
(* Option<T>.                                                              *)
(***************************************************************************)
None == [some |-> FALSE]
Some(x) == [some |-> TRUE, v |-> x]

(***************************************************************************)
(* jsonc_parser::JsonValue, the tree the external parser returns:          *)
(* Array | Boolean | Null | Number(text of the numeral) | Object | String. *)
(***************************************************************************)
JNull == [j |-> "Null"]
JBoolean(x) == [j |-> "Boolean", b |-> x]
JNumber(s) == [j |-> "Number", n |-> s]
JString(s) == [j |-> "String", s |-> s]
JArray(e) == [j |-> "Array", e |-> e]
JObject(m) == [j |-> "Object", m |-> m]

\* serde_json::Number::from_str on a numeral the parser accepted.
Number_from_str(num) == Number(num)

RECURSIVE jsonc_to_serde(_)
RECURSIVE ConvertElems(_)

\* arr.into_iter().map(jsonc_to_serde).collect()
ConvertElems(e) ==
  IF e = <<>> THEN <<>>
  ELSE <<jsonc_to_serde(Head(e))>> \o ConvertElems(Tail(e))

jsonc_to_serde(v) ==
  CASE v.j = "Array" -> Array(ConvertElems(v.e))
    [] v.j = "Boolean" -> Bool(v.b)
    [] v.j = "Null" -> Null
    [] v.j = "Number" -> Number_from_str(v.n)
    [] v.j = "Object" -> Object([k \in DOMAIN v.m |-> jsonc_to_serde(v.m[k])])
    [] v.j = "String" -> String(v.s)

(***************************************************************************)
(* The 61 names of IGNORED_COMPILER_OPTIONS.                               *)
(***************************************************************************)
IGNORED_COMPILER_OPTIONS ==
  { "allowSyntheticDefaultImports", "allowUmdGlobalAccess",
    "assumeChangesOnlyAffectDirectDependencies", "baseUrl", "build",
    "composite", "declaration", "declarationDir", "declarationMap",
    "diagnostics", "downlevelIteration", "emitBOM", "emitDeclarationOnly",
    "esModuleInterop", "extendedDiagnostics",
    "forceConsistentCasingInFileNames", "generateCpuProfile", "help",
    "importHelpers", "incremental", "inlineSourceMap", "inlineSources",
    "init", "listEmittedFiles", "listFiles", "mapRoot",
    "maxNodeModuleJsDepth", "module", "moduleResolution", "newLine",
    "noEmit", "noEmitHelpers", "noEmitOnError", "noLib", "noResolve", "out",
    "outDir", "outFile", "paths", "preserveConstEnums", "preserveSymlinks",
    "preserveWatchOutput", "pretty", "reactNamespace", "resolveJsonModule",
    "rootDir", "rootDirs", "showConfig", "skipDefaultLibCheck",
    "skipLibCheck", "sourceMap", "sourceRoot", "stripInternal", "target",
    "traceResolution", "tsBuildInfoFile", "types", "typeRoots",
    "useDefineForClassFields", "version", "watch" }

(***************************************************************************)
(* The config text.  The external jsonc parser is a black box; a text is   *)
(* modelled by what parse_to_value answers for it: nothing for a text of   *)
(* only whitespace and comments (and for the empty text), a parse error    *)
(* for a malformed text, and otherwise the JsonValue tree it denotes.      *)
(***************************************************************************)
EmptyText == [kind |-> "empty"]
BlankText == [kind |-> "blank"]
MalformedText == [kind |-> "malformed"]
JsonText(tree) == [kind |-> "json", tree |-> tree]

is_empty(config_text) == config_text.kind = "empty"

\* jsonc_parser::parse_to_value(config_text): Result<Option<JsonValue>, _>
parse_to_value(config_text) ==
  CASE config_text.kind = "malformed" -> [ok |-> FALSE]
    [] config_text.kind = "json" -> [ok |-> TRUE, value |-> Some(config_text.tree)]
    [] OTHER -> [ok |-> TRUE, value |-> None]

(***************************************************************************)
(* serde_json::from_value::<TSConfigJson>: the derived Deserialize.  An    *)
(* Object is read by field name (a missing or null Option field is None,   *)
(* unknown keys are skipped), an Array by position, anything else fails.   *)
(***************************************************************************)
RECURSIVE AllStrings(_)
AllStrings(e) == e = <<>> \/ (Head(e).t = "String" /\ AllStrings(Tail(e)))

\* Option<HashMap<String, Value>>
FitsOptionMap(v) == v.t \in {"Null", "Object"}
\* Option<Vec<String>>
FitsOptionVecString(v) == v.t = "Null" \/ (v.t = "Array" /\ AllStrings(v.e))
\* Option<String>
FitsOptionString(v) == v.t \in {"Null", "String"}

TSConfigJsonFields ==
  <<"compilerOptions", "exclude", "extends", "files", "include",
    "references", "typeAcquisition">>

FieldFits(name, v) ==
  CASE name = "compilerOptions" -> FitsOptionMap(v)
    [] name \in {"exclude", "files", "include"} -> FitsOptionVecString(v)
    [] name = "extends" -> FitsOptionString(v)
    [] OTHER -> TRUE

from_value_TSConfigJson(v) ==
  CASE v.t = "Object" ->
         IF \A k \in DOMAIN v.m : FieldFits(k, v.m[k])
         THEN [ok |-> TRUE,
               compiler_options |->
                 IF "compilerOptions" \in DOMAIN v.m
                    /\ v.m["compilerOptions"].t = "Object"
                 THEN Some(v.m["compilerOptions"].m) ELSE None]
         ELSE [ok |-> FALSE]
    [] v.t = "Array" ->
         IF Len(v.e) = Len(TSConfigJsonFields)
            /\ \A i \in 1..Len(v.e) : FieldFits(TSConfigJsonFields[i], v.e[i])
         THEN [ok |-> TRUE,
               compiler_options |->
                 IF v.e[1].t = "Object" THEN Some(v.e[1].m) ELSE None]
         ELSE [ok |-> FALSE]
    [] OTHER -> [ok |-> FALSE]

(***************************************************************************)
(* parse_raw_config and parse_config.  A call ends "Ok", "Err" (an error   *)
(* value returned to the caller) or "Panic" (assert! / unwrap failed).     *)
(***************************************************************************)
parse_raw_config(config_text) ==
  IF is_empty(config_text) THEN [result |-> "Panic"]
  ELSE LET parsed == parse_to_value(config_text) IN
    IF ~parsed.ok THEN [result |-> "Err"]
    ELSE IF ~parsed.value.some THEN [result |-> "Panic"]
    ELSE [result |-> "Ok", value |-> jsonc_to_serde(parsed.value.v)]

RECURSIVE FilterOptions(_, _, _)
\* Variant: the `else` is lost, so an ignored entry is reported and inserted too.
FilterOptions_keep_ignored(in_compiler_options, ks, acc) ==
  IF ks = {} THEN acc
  ELSE LET key == CHOOSE x \in ks : TRUE
           items == IF key \in IGNORED_COMPILER_OPTIONS
                    THEN acc.items \cup {key} ELSE acc.items
       IN FilterOptions(in_compiler_options, ks \ {key},
            [compiler_options |->
               MapInsert(acc.compiler_options, key, in_compiler_options[key]),
             items |-> items])

\* The loop over in_compiler_options: a key in IGNORED_COMPILER_OPTIONS is
\* pushed on `items`, any other entry is inserted into `compiler_options`.
\* `items` is kept as a set: the Vec's order is the HashMap's iteration order.
FilterOptions(in_compiler_options, ks, acc) ==
  IF ks = {} THEN acc
  ELSE LET key == CHOOSE x \in ks : TRUE IN
    FilterOptions(in_compiler_options, ks \ {key},
      IF key \in IGNORED_COMPILER_OPTIONS
      THEN [acc EXCEPT !.items = @ \cup {key}]
      ELSE [acc EXCEPT !.compiler_options =
                         MapInsert(@, key, in_compiler_options[key])])

parse_config(config_text, path) ==
  IF is_empty(config_text) THEN [result |-> "Panic"]
  ELSE LET parsed == parse_to_value(config_text) IN
    IF ~parsed.ok THEN [result |-> "Err"]
    ELSE IF ~parsed.value.some THEN [result |-> "Panic"]
    ELSE LET cfg == from_value_TSConfigJson(jsonc_to_serde(parsed.value.v)) IN
      IF ~cfg.ok THEN [result |-> "Err"]
      ELSE LET
        filtered ==
          IF cfg.compiler_options.some
          THEN FilterOptions(cfg.compiler_options.v,
                             DOMAIN cfg.compiler_options.v,
                             [compiler_options |-> EmptyMap, items |-> {}])
          ELSE [compiler_options |-> EmptyMap, items |-> {}]
        ignored_options ==
          IF filtered.items # {}
          THEN Some([items |-> filtered.items, path |-> path])
          ELSE None
      IN [result |-> "Ok",
          value |-> Object(filtered.compiler_options),
          ignored |-> ignored_options]

(***************************************************************************)
(* serde_json::from_value::<TranspileConfigOptions>: five required fields, *)
(* read by their camelCase names from an Object (other keys are skipped),  *)
(* or by position from an Array.                                           *)
(***************************************************************************)
TranspileFields ==
  << [name |-> "checkJs", ty |-> "Bool"],
     [name |-> "emitDecoratorMetadata", ty |-> "Bool"],
     [name |-> "jsx", ty |-> "String"],
     [name |-> "jsxFactory", ty |-> "String"],
     [name |-> "jsxFragmentFactory", ty |-> "String"] >>

from_value_TranspileConfigOptions(v) ==
  CASE v.t = "Object" ->
         IF \A i \in 1..Len(TranspileFields) :
              /\ TranspileFields[i].name \in DOMAIN v.m
              /\ v.m[TranspileFields[i].name].t = TranspileFields[i].ty
         THEN [ok |-> TRUE,
               options |-> [check_js |-> v.m["checkJs"].b,
                            emit_decorator_metadata |-> v.m["emitDecoratorMetadata"].b,
                            jsx |-> v.m["jsx"].s,
                            jsx_factory |-> v.m["jsxFactory"].s,
                            jsx_fragment_factory |-> v.m["jsxFragmentFactory"].s]]
         ELSE [ok |-> FALSE]
    [] v.t = "Array" ->
         IF /\ Len(v.e) = Len(TranspileFields)
            /\ \A i \in 1..Len(v.e) : v.e[i].t = TranspileFields[i].ty
         THEN [ok |-> TRUE,
               options |-> [check_js |-> v.e[1].b,
                            emit_decorator_metadata |-> v.e[2].b,
                            jsx |-> v.e[3].s,
                            jsx_factory |-> v.e[4].s,
                            jsx_fragment_factory |-> v.e[5].s]]
         ELSE [ok |-> FALSE]
    [] OTHER -> [ok |-> FALSE]

(***************************************************************************)
(* TsConfig.  Each method is given the held value (self.0) and answers     *)
(* with the value held afterwards and what the caller gets back.           *)
(***************************************************************************)
\* What the environment answers to current_dir, canonicalize, read_to_string.
NoCwd == [fs |-> "NoCwd"]
NotFound == [fs |-> "NotFound"]
ReadError == [fs |-> "ReadError"]
File(config_path, config_text) ==
  [fs |-> "File", config_path |-> config_path, text |-> config_text]

MergeRet(maybe_path, result, report, read, fs_calls) ==
  [op |-> "merge_user_config", maybe_path |-> maybe_path, result |-> result,
   report |-> report, read |-> read, fs_calls |-> fs_calls]

\* `if let Some(path) = maybe_path { .. } else { Ok(None) }`: the else branch.
NoOverride(self, maybe_path) ==
  [config |-> self, merged |-> None,
   ret |-> MergeRet(maybe_path, "Ok", None, None, <<>>)]

\* Variant: the merge is skipped when options were ignored.
MergeParsed_skip_when_ignored(self, parsed) ==
  IF parsed.ignored.some THEN self ELSE json_merge(self, parsed.value)

\* Variant: the parsed options replace the held value instead of merging into it.
MergeParsed_replace(self, parsed) == parsed.value

\* json_merge(&mut self.0, &value) with the value parse_config returned.
MergeParsed(self, parsed) == json_merge(self, parsed.value)

\* Variant: the parsed text is merged before its shape is checked, so a file
\* that parses but has the wrong shape fails after changing the held value.
MergeFile_merge_before_check(self, maybe_path, env) ==
  LET raw == parse_raw_config(env.text)
      parsed == parse_config(env.text, env.config_path)
      fs_calls == <<"current_dir", "canonicalize", "read_to_string">>
  IN IF parsed.result = "Ok"
     THEN [config |-> json_merge(self, parsed.value),
           merged |-> Some(parsed.value),
           ret |-> MergeRet(maybe_path, "Ok", parsed.ignored,
                            Some(env.text), fs_calls)]
     ELSE [config |-> IF raw.result = "Ok" THEN json_merge(self, raw.value) ELSE self,
           merged |-> None,
           ret |-> MergeRet(maybe_path, parsed.result, None,
                            Some(env.text), fs_calls)]

\* read_to_string gave the text: parse_config(..)?, json_merge, Ok(..).
MergeFile(self, maybe_path, env) ==
  LET parsed == parse_config(env.text, env.config_path)
      fs_calls == <<"current_dir", "canonicalize", "read_to_string">>
  IN IF parsed.result = "Ok"
     THEN [config |-> MergeParsed(self, parsed),
           merged |-> Some(parsed.value),
           ret |-> MergeRet(maybe_path, "Ok", parsed.ignored,
                            Some(env.text), fs_calls)]
     ELSE [config |-> self, merged |-> None,
           ret |-> MergeRet(maybe_path, parsed.result, None,
                            Some(env.text), fs_calls)]

\* The Some(path) branch: current_dir()?, canonicalize()?, read_to_string()?
MergePath(self, maybe_path, env) ==
  CASE env.fs = "NoCwd" ->
         [config |-> self, merged |-> None,
          ret |-> MergeRet(maybe_path, "Err", None, None, <<"current_dir">>)]
    [] env.fs = "NotFound" ->
         [config |-> self, merged |-> None,
          ret |-> MergeRet(maybe_path, "Err", None, None,
                           <<"current_dir", "canonicalize">>)]
    [] env.fs = "ReadError" ->
         [config |-> self, merged |-> None,
          ret |-> MergeRet(maybe_path, "Err", None, None,
                           <<"current_dir", "canonicalize", "read_to_string">>)]
    [] env.fs = "File" -> MergeFile(self, maybe_path, env)

\* Variant: an absent path falls back to a default path, which is then read.
merge_user_config_default_path(self, maybe_path, env) ==
  MergePath(self, maybe_path, env)

merge_user_config(self, maybe_path, env) ==
  IF maybe_path.some
  THEN MergePath(self, maybe_path, env)
  ELSE NoOverride(self, maybe_path)

\* Variant: the five fields are looked for under the `compilerOptions` key.
as_transpile_config_nested(self) ==
  LET options ==
        IF is_object(self) /\ "compilerOptions" \in DOMAIN self.m
        THEN from_value_TranspileConfigOptions(self.m["compilerOptions"])
        ELSE [ok |-> FALSE]
  IN IF options.ok
     THEN [op |-> "as_transpile_config", result |-> "Ok", options |-> options.options]
     ELSE [op |-> "as_transpile_config", result |-> "Err"]

as_transpile_config(self) ==
  LET options == from_value_TranspileConfigOptions(self) IN
  IF options.ok
  THEN [op |-> "as_transpile_config", result |-> "Ok", options |-> options.options]
  ELSE [op |-> "as_transpile_config", result |-> "Err"]

(***************************************************************************)
(* The inputs of the resolver: the base values, and the texts a config     *)
(* file may hold.                                                          *)
(***************************************************************************)
MaxCalls == 2

TranspileDefaults ==
  [checkJs |-> Bool(FALSE), emitDecoratorMetadata |-> Bool(FALSE),
   jsx |-> String("react"), jsxFactory |-> String("React.createElement"),
   jsxFragmentFactory |-> String("React.Fragment")]

Bases ==
  { Object([k \in {"strict"} |-> Bool(TRUE)]),
    Object(TranspileDefaults),
    Object([k \in DOMAIN TranspileDefaults \ {"jsx"} |-> TranspileDefaults[k]]),
    Object([k \in {"compilerOptions"} |-> Object(TranspileDefaults)]),
    Object([k \in {"strict"} |->
             Object([n \in {"x", "y"} |-> Number("2")])]),
    Array(<<Bool(FALSE), Bool(TRUE), String("react"), String("h"), String("f")>>),
    Null }

OptionKeys == {"build", "strict", "jsx"}

OptionValues == {JBoolean(TRUE), JString("preserve")}

CompilerOptionsTrees == {JObject(m) : m \in Maps(OptionKeys, OptionValues)}

ConfigTrees ==
  {JObject([k \in {"compilerOptions"} |-> co]) : co \in CompilerOptionsTrees}
  \cup
  { JObject(EmptyMap),
    JObject([k \in {"compilerOptions"} |-> JNull]),
    JObject([k \in {"compilerOptions"} |-> JArray(<<JString("strict")>>)]),
    JObject([k \in {"compilerOptions", "exclude"} |->
              IF k = "exclude" THEN JArray(<<JString("dist")>>)
              ELSE JObject([o \in {"strict", "paths"} |->
                             IF o = "strict" THEN JBoolean(FALSE)
                             ELSE JObject([p \in {"x"} |-> JArray(<<JString("y")>>)])])]),
    JObject([k \in {"compilerOptions", "files"} |->
              IF k = "files" THEN JNumber("1")
              ELSE JObject([o \in {"strict"} |-> JBoolean(TRUE)])]),
    JObject([k \in {"compilerOptions"} |->
              JObject([o \in {"strict"} |->
                        JObject([n \in {"x"} |-> JNumber("1")])])]),
    JArray(<<>>),
    JNull }

Texts ==
  {EmptyText, BlankText, MalformedText} \cup {JsonText(tree) : tree \in ConfigTrees}

ConfigPath == "/deno/tsconfig.json"

Envs == {NoCwd, NotFound, ReadError} \cup {File(ConfigPath, t) : t \in Texts}

\* No call has been made yet.
Idle == [op |-> "none", result |-> "none"]

\* A panic ends the process: no call follows it.
Alive == ret.result # "Panic"

NoMergeVars == a0 = Null /\ a = Null /\ b = Null

(***************************************************************************)
(* The resolver: TsConfig::new(base), then calls of merge_user_config and  *)
(* as_transpile_config until a call panics.                                *)
(***************************************************************************)
Init ==
  /\ base \in Bases
  /\ config = base
  /\ before = base
  /\ ret = Idle /\ prev = Idle /\ hist = <<>>
  /\ calls = 0 /\ text = EmptyText
  /\ NoMergeVars /\ mpc = "resolver"

CallMergeUserConfig ==
  /\ mpc = "resolver" /\ Alive /\ calls < MaxCalls
  /\ \E maybe_path \in {None, Some("tsconfig.json")}, env \in Envs :
       LET r == merge_user_config(config, maybe_path, env) IN
         /\ config' = r.config
         /\ ret' = r.ret
         /\ hist' = IF r.merged.some THEN Append(hist, r.merged.v) ELSE hist
  /\ before' = config
  /\ prev' = ret
  /\ calls' = calls + 1
  /\ UNCHANGED <<a0, a, b, mpc, base, text>>

CallAsTranspileConfig ==
  /\ mpc = "resolver" /\ Alive /\ calls < MaxCalls
  /\ ret' = as_transpile_config(config)
  /\ before' = config
  /\ prev' = ret
  /\ calls' = calls + 1
  /\ UNCHANGED <<a0, a, b, mpc, base, config, hist, text>>

Next == CallMergeUserConfig \/ CallAsTranspileConfig

Spec == Init /\ [][Next]_vars

(***************************************************************************)
(* The driver of parse_raw_config and parse_config as functions of the     *)
(* config text.                                                            *)
(***************************************************************************)
ParseInit ==
  /\ text \in Texts
  /\ ret = Idle /\ prev = Idle /\ hist = <<>> /\ calls = 0
  /\ base = Null /\ config = Null /\ before = Null
  /\ NoMergeVars /\ mpc = "parse"

CallParseRawConfig ==
  /\ mpc = "parse" /\ ret = Idle
  /\ ret' = [op |-> "parse_raw_config", out |-> parse_raw_config(text)]
  /\ UNCHANGED <<a0, a, b, mpc, base, config, before, hist, prev, calls, text>>

CallParseConfig ==
  /\ mpc = "parse" /\ ret = Idle
  /\ ret' = [op |-> "parse_config", out |-> parse_config(text, ConfigPath)]
  /\ UNCHANGED <<a0, a, b, mpc, base, config, before, hist, prev, calls, text>>

ParseNext == CallParseRawConfig \/ CallParseConfig

SpecParse == ParseInit /\ [][ParseNext]_vars

(***************************************************************************)
(* The driver of json_merge as a pure function: a and b are drawn from     *)
(* MergeValues, and json_merge(&mut a, &b) is applied, then applied again. *)
(***************************************************************************)
MergeInit ==
  /\ a0 \in MergeValues
  /\ a = a0
  /\ b \in MergeValues
  /\ mpc = "start"
  /\ base = Null /\ config = Null /\ before = Null
  /\ ret = Idle /\ prev = Idle /\ hist = <<>>
  /\ calls = 0 /\ text = EmptyText

CallMerge ==
  /\ mpc = "start"
  /\ a' = json_merge(a, b)
  /\ mpc' = "once"
  /\ UNCHANGED <<a0, b, base, config, before, ret, hist, prev, calls, text>>

CallMergeAgain ==
  /\ mpc = "once"
  /\ a' = json_merge(a, b)
  /\ mpc' = "twice"
  /\ UNCHANGED <<a0, b, base, config, before, ret, hist, prev, calls, text>>

MergeNext == CallMerge \/ CallMergeAgain

SpecMerge == MergeInit /\ [][MergeNext]_vars

(***************************************************************************)
(* json_merge and the resolver together, for the claims that speak of both.*)
(***************************************************************************)
SpecBoth == (MergeInit \/ Init) /\ [][MergeNext \/ Next]_vars

(***************************************************************************)
(* Helpers of the properties: the key paths of a value, and the merge as   *)
(* the specification words it.                                             *)
(***************************************************************************)
RECURSIVE PathsOf(_)
PathsOf(v) ==
  {<<>>} \cup
  (IF is_object(v)
   THEN UNION {{<<k>> \o p : p \in PathsOf(v.m[k])} : k \in DOMAIN v.m}
   ELSE {})

RECURSIVE HasPath(_, _)
HasPath(v, p) ==
  \/ p = <<>>
  \/ /\ is_object(v)
     /\ Head(p) \in DOMAIN v.m
     /\ HasPath(v.m[Head(p)], Tail(p))

RECURSIVE Get(_, _)
Get(v, p) == IF p = <<>> THEN v ELSE Get(v.m[Head(p)], Tail(p))

ValueAt(v, k) == IF is_object(v) /\ k \in DOMAIN v.m THEN v.m[k] ELSE Null

\* Two Objects: the union of the keys, a key of `from` merged recursively into
\* the old entry (or into Null), a key of `into` alone kept.  Otherwise: `from`.
RECURSIVE StatedMerge(_, _)
StatedMerge(into, from) ==
  IF is_object(into) /\ is_object(from)
  THEN Object([k \in DOMAIN into.m \cup DOMAIN from.m |->
                 IF k \in DOMAIN from.m
                 THEN StatedMerge(ValueAt(into, k), from.m[k])
                 ELSE into.m[k]])
  ELSE from

\* The compilerOptions mapping of a config text (empty when there is none).
InputOptions(config_text) ==
  IF /\ config_text.kind = "json"
     /\ config_text.tree.j = "Object"
     /\ "compilerOptions" \in DOMAIN config_text.tree.m
     /\ config_text.tree.m["compilerOptions"].j = "Object"
  THEN config_text.tree.m["compilerOptions"].m
  ELSE EmptyMap

\* The input mapping without the excluded keys, as a Value.
FilteredOptions(config_text) ==
  LET input == InputOptions(config_text) IN
  Object([k \in DOMAIN input \ IGNORED_COMPILER_OPTIONS |-> jsonc_to_serde(input[k])])

MergedOk(r) == r.op = "merge_user_config" /\ r.maybe_path.some /\ r.result = "Ok"

C2_FromWinsOtherwise ==
  mpc = "once" =>
    /\ (~(is_object(a0) /\ is_object(b))) => a = b
    /\ \A p \in PathsOf(b) :
         ~is_object(Get(b, p)) => (HasPath(a, p) /\ Get(a, p) = Get(b, p))

\* Merging {a:[3]} into {a:[1,3]} has given {a:[3]}.
C2_Witness ==
  /\ mpc = "once"
  /\ a0 = Object([k \in {"a"} |-> Array(<<Number("1"), Number("3")>>)])
  /\ b = Object([k \in {"a"} |-> Array(<<Number("3")>>)])
  /\ a = b

(***************************************************************************)
(* C3: the filter of parse_config partitions the keys of the input         *)
(* compilerOptions: kept keys and ignored names are disjoint and together  *)
(* the input keys, the ignored names are in the 61-name exclusion set, no  *)
(* kept key is, kept keys keep their values, and a report is returned      *)
(* exactly when an input key is in the exclusion set.                      *)
(***************************************************************************)
C3_FilterPartitions ==
  (ret.op = "parse_config" /\ ret.out.result = "Ok") =>
    LET input == InputOptions(text)
        kept == ret.out.value.m
        ignored == IF ret.out.ignored.some THEN ret.out.ignored.v.items ELSE {}
    IN /\ is_object(ret.out.value)
       /\ DOMAIN kept \cap ignored = {}
       /\ DOMAIN kept \cup ignored = DOMAIN input
       /\ ignored \subseteq IGNORED_COMPILER_OPTIONS
       /\ DOMAIN kept \cap IGNORED_COMPILER_OPTIONS = {}
       /\ \A k \in DOMAIN kept : kept[k] = jsonc_to_serde(input[k])
       /\ ret.out.ignored.some <=> (DOMAIN input \cap IGNORED_COMPILER_OPTIONS # {})
       /\ ret.out.ignored.some => ret.out.ignored.v.path = ConfigPath
       /\ Cardinality(IGNORED_COMPILER_OPTIONS) = 61

\* {"compilerOptions": {"build": true, "strict": true}}: strict kept, build reported.
C3_Witness ==
  /\ ret.op = "parse_config"
  /\ ret.out.result = "Ok"
  /\ DOMAIN InputOptions(text) = {"build", "strict"}
  /\ DOMAIN ret.out.value.m = {"strict"}
  /\ ret.out.ignored = Some([items |-> {"build"}, path |-> ConfigPath])

(***************************************************************************)
(* C4: after a successful merge_user_config(Some(path)) the held           *)
(* configuration is json_merge(held before, filtered compilerOptions of    *)
(* the file): the file's value is held at every leaf of the filtered       *)
(* mapping, the merge is done also when keys were ignored, and an ignored  *)
(* key's value is never merged.                                            *)
(***************************************************************************)
C4_MergesFilteredOptions ==
  MergedOk(ret) =>
    LET input == InputOptions(ret.read.v)
        filtered == FilteredOptions(ret.read.v)
    IN /\ config = json_merge(before, filtered)
       /\ is_object(config)
       /\ \A p \in PathsOf(filtered) :
            ~is_object(Get(filtered, p)) =>
              (HasPath(config, p) /\ Get(config, p) = Get(filtered, p))
       /\ \A k \in DOMAIN input \cap IGNORED_COMPILER_OPTIONS :
            IF is_object(before) /\ k \in DOMAIN before.m
            THEN k \in DOMAIN config.m /\ config.m[k] = before.m[k]
            ELSE k \notin DOMAIN config.m
       /\ ret.report.some <=> (DOMAIN input \cap IGNORED_COMPILER_OPTIONS # {})

\* Base {strict: true}, file {build: true, strict: "preserve"}: strict is the
\* file's, build is reported and not held.
C4_Witness ==
  /\ MergedOk(ret)
  /\ before = Object([k \in {"strict"} |-> Bool(TRUE)])
  /\ DOMAIN InputOptions(ret.read.v) = {"build", "strict"}
  /\ config = Object([k \in {"strict"} |-> String("preserve")])
  /\ ret.report.some /\ ret.report.v.items = {"build"}

(***************************************************************************)
(* C5: whenever merge_user_config(Some(path)) returns an error, the held   *)
(* configuration is what it was before the call and no report is returned.*)
(***************************************************************************)
C5_FailureChangesNothing ==
  (ret.op = "merge_user_config" /\ ret.result = "Err") =>
    /\ config = before
    /\ ret.report = None

\* A file of the wrong shape is rejected after an earlier merge changed the
\* configuration.
C5_Witness ==
  /\ ret.op = "merge_user_config" /\ ret.result = "Err"
  /\ ret.read.some /\ ret.read.v.kind = "json"
  /\ MergedOk(prev)
  /\ config # base

(***************************************************************************)
(* C6: no config text makes parse_raw_config or parse_config panic: every  *)
(* call ends by returning a success value or an error value.               *)
(***************************************************************************)
C6_NeverPanics ==
  ret.op \in {"parse_raw_config", "parse_config"} => ret.out.result \in {"Ok", "Err"}

(***************************************************************************)
(* C7 as stated: as_transpile_config succeeds exactly when the five typed  *)
(* fields are found under the `compilerOptions` object of the held         *)
(* configuration.                                                          *)
(***************************************************************************)
HasTranspileFields(v) ==
  /\ is_object(v)
  /\ \A i \in 1..Len(TranspileFields) :
       /\ TranspileFields[i].name \in DOMAIN v.m
       /\ v.m[TranspileFields[i].name].t = TranspileFields[i].ty

C7_FieldsUnderCompilerOptions ==
  ret.op = "as_transpile_config" =>
    (ret.result = "Ok" <=> HasTranspileFields(ValueAt(config, "compilerOptions")))

(***************************************************************************)
(* C7 as amended: when the held configuration is an Object,                *)
(* as_transpile_config succeeds exactly when that Object itself has the    *)
(* five fields checkJs, emitDecoratorMetadata (Bool), jsx, jsxFactory,     *)
(* jsxFragmentFactory (String), and then returns their values; otherwise   *)
(* it returns an error.  The held configuration is left as it was.         *)
(***************************************************************************)
C7_FieldsAtTopLevel ==
  (ret.op = "as_transpile_config" /\ is_object(config)) =>
    /\ ret.result \in {"Ok", "Err"}
    /\ ret.result = "Ok" <=> HasTranspileFields(config)
    /\ ret.result = "Ok" =>
         ret.options = [check_js |-> config.m["checkJs"].b,
                        emit_decorator_metadata |-> config.m["emitDecoratorMetadata"].b,
                        jsx |-> config.m["jsx"].s,
                        jsx_factory |-> config.m["jsxFactory"].s,
                        jsx_fragment_factory |-> config.m["jsxFragmentFactory"].s]
    /\ config = before

\* The projection succeeds after a file set jsx, which the base lacked.
C7_Witness ==
  /\ ret.op = "as_transpile_config" /\ ret.result = "Ok"
  /\ is_object(config) /\ is_object(base)
  /\ "jsx" \notin DOMAIN base.m
  /\ ret.options.jsx = "preserve"

(***************************************************************************)
(* C8: merge_user_config(None) returns success with no report, leaves the  *)
(* held configuration unchanged whatever it is, and makes no call to the   *)
(* filesystem.                                                             *)
(***************************************************************************)
C8_NoneIsNoOp ==
  (ret.op = "merge_user_config" /\ ~ret.maybe_path.some) =>
    /\ ret.result = "Ok"
    /\ ret.report = None
    /\ config = before
    /\ ret.fs_calls = <<>>

\* A None call on a resolver that an earlier merge has changed.
C8_Witness ==
  /\ ret.op = "merge_user_config" /\ ~ret.maybe_path.some
  /\ MergedOk(prev)
  /\ config # base

(***************************************************************************)
(* C9: merges compound.  With F1 and F2 the last two files merged, the     *)
(* held configuration is json_merge(json_merge(held before F1, F1), F2);   *)
(* a path both files set to a non-Object value holds F2's value, a key set *)
(* by F1 alone holds F1's merge, a key of the earlier configuration alone  *)
(* remains.                                                                *)
(***************************************************************************)
RECURSIVE MergeAll(_, _)
MergeAll(v, fs) == IF fs = <<>> THEN v ELSE MergeAll(json_merge(v, Head(fs)), Tail(fs))

C9_MergesCompound ==
  /\ config = MergeAll(base, hist)
  /\ Len(hist) >= 2 =>
       LET n == Len(hist)
           f1 == hist[n - 1]
           f2 == hist[n]
           start == MergeAll(base, SubSeq(hist, 1, n - 2))
       IN /\ config = json_merge(json_merge(start, f1), f2)
          /\ \A p \in PathsOf(f1) \cap PathsOf(f2) :
               (~is_object(Get(f1, p)) /\ ~is_object(Get(f2, p))) =>
                 (HasPath(config, p) /\ Get(config, p) = Get(f2, p))
          /\ \A k \in DOMAIN f1.m \ DOMAIN f2.m :
               /\ k \in DOMAIN config.m
               /\ config.m[k] = StatedMerge(ValueAt(start, k), f1.m[k])
          /\ is_object(start) =>
               \A k \in DOMAIN start.m \ (DOMAIN f1.m \cup DOMAIN f2.m) :
                 k \in DOMAIN config.m /\ config.m[k] = start.m[k]

\* Two files were merged: both set strict (the later value is held), the
\* first alone set jsx (still held), and a key of the base alone remains.
C9_Witness ==
  /\ Len(hist) = 2
  /\ "strict" \in DOMAIN hist[1].m /\ "strict" \in DOMAIN hist[2].m
  /\ hist[1].m["strict"] # hist[2].m["strict"]
  /\ config.m["strict"] = hist[2].m["strict"]
  /\ "jsx" \in DOMAIN hist[1].m /\ "jsx" \notin DOMAIN hist[2].m
  /\ is_object(base) /\ "jsx" \in DOMAIN base.m
  /\ config.m["jsx"] = hist[1].m["jsx"]
  /\ config.m["jsx"] # base.m["jsx"]
  /\ config.m["checkJs"] = base.m["checkJs"]

(***************************************************************************)
(* C10: merging is idempotent.  Applying json_merge(a, b) a second time    *)
(* leaves a as the first application left it; and a merge_user_config      *)
(* call that succeeds on the same text as the successful call just before  *)
(* it leaves the held configuration unchanged and reports the same ignored *)
(* names.                                                                  *)
(***************************************************************************)
C10_MergeIdempotent ==
  /\ [][mpc = "once" => a' = a]_vars
  /\ []((MergedOk(ret) /\ MergedOk(prev) /\ ret.read = prev.read) =>
          (config = before /\ ret.report = prev.report))

\* The second application has run on a merge that changed a and is not b.
C10_Witness ==
  /\ mpc = "twice"
  /\ is_object(a0) /\ is_object(b)
  /\ a # a0 /\ a # b

====
